---- MODULE Spec2Model ----
(***************************************************************************)
(* terraform-provider-vaultpatch: the vaultpatch_kv_keys resource.         *)
(*                                                                         *)
(* The resource manages some keys of one Vault KV v2 secret.  Each         *)
(* lifecycle handler (Create, Read, Update, Delete, ImportState) GETs the  *)
(* whole secret, computes a new full document in memory and, for Create,   *)
(* Update and Delete, POSTs it back.  The model keeps the secret as Vault  *)
(* holds it (JSON values of any type), the Terraform state of the          *)
(* resource, and the position and locals of the handler that is running.   *)
(* A handler is two steps, split at its POST, so that another writer of    *)
(* the same secret can act in between.                                     *)
(***************************************************************************)
EXTENDS Integers, Sequences, FiniteSets, TLC

(***************************************************************************)
(* Bounds of the model.                                                    *)
(***************************************************************************)
\* Number of distinct key names that occur in secrets, plans and states.
NumKeys == 2
\* Number of writes by other writers of the secret between the GET and the
\* POST of one handler.
MaxExternalWrites == 1

KeyNames == <<"a", "b", "c", "d">>
Keys == {KeyNames[i] : i \in 1..NumKeys}
\* The string values of plans and states (types.StringType elements).
Texts == {"1", "2"}

(***************************************************************************)
(* JSON values as Vault stores them.  A value has a JSON type and the text *)
(* that Go prints for it under %v: the string "1" and the number 1 are     *)
(* different values with the same text.                                    *)
(***************************************************************************)
JString(s) == [kind |-> "string", text |-> s]
JNumber(s) == [kind |-> "number", text |-> s]
JsonValues == {JString(s) : s \in Texts} \cup {JNumber("1")}

\* All mappings from some of the keys to values of V (a Go map).
MapsTo(V) == UNION {[S -> V] : S \in SUBSET Keys}
EmptyMap == << >>

\* delete(m, k)
MapDelete(m, k) == [x \in (DOMAIN m) \ {k} |-> m[x]]
\* m[k] = v
MapPut(m, k, v) == [x \in (DOMAIN m) \cup {k} |-> IF x = k THEN v ELSE m[x]]
\* for key := range ks { delete(m, key) }
MapDeleteAll(m, ks) == [x \in (DOMAIN m) \ ks |-> m[x]]

(***************************************************************************)
(* The location of the secret and the Terraform state of the resource.     *)
(* Strings that the code splits or joins are sequences of characters.      *)
(***************************************************************************)
TheMount == <<"m">>
ThePath == <<"p", "/", "q">>
Slash == <<"/">>

\* fmt.Sprintf("%s/%s", mount, path)
FormatID(mount, path) == mount \o Slash \o path

\* No resource in the Terraform state.
Untracked == [tracked |-> FALSE, id |-> << >>, mount |-> << >>, path |-> << >>,
              keys |-> EmptyMap]
\* A KvKeysResourceModel held in the Terraform state.
Tracked(id, mount, path, keys) ==
    [tracked |-> TRUE, id |-> id, mount |-> mount, path |-> path, keys |-> keys]

(***************************************************************************)
(* The Vault KV v2 HTTP API as the resource uses it.                       *)
(***************************************************************************)
StatusOK == 200
StatusNoContent == 204
StatusNotFound == 404
\* Statuses Vault answers when it refuses or fails a request.
FailureStatuses == {500}

\* The secret at the location: absent, or a document of JSON values.
NoSecret == [exists |-> FALSE, data |-> EmptyMap]
Secret(d) == [exists |-> TRUE, data |-> d]
VaultStates == {NoSecret} \cup {Secret(d) : d \in MapsTo(JsonValues)}

\* An HTTP exchange: transport is "ok", or "send" (client.Do failed) or
\* "read" (io.ReadAll failed); valid says that the body parses as JSON;
\* null says that data.data is null or missing in the body.
Exchange(transport, status, valid, null, data) ==
    [transport |-> transport, status |-> status, valid |-> valid,
     null |-> null, data |-> data]
NoExchange == Exchange("none", 0, FALSE, FALSE, EmptyMap)

\* What a GET of the location can answer when Vault holds v there: the
\* secret, not found, or a failure of the transport, of Vault or of the body.
VaultGet(v) ==
    (IF v.exists
        THEN {Exchange("ok", StatusOK, TRUE, FALSE, v.data)}
             \cup (IF v.data = EmptyMap
                      THEN {Exchange("ok", StatusOK, TRUE, TRUE, EmptyMap)}
                      ELSE {})
        ELSE {Exchange("ok", StatusNotFound, TRUE, TRUE, EmptyMap)})
    \cup {Exchange("send", 0, FALSE, FALSE, EmptyMap),
          Exchange("read", StatusOK, FALSE, FALSE, EmptyMap),
          Exchange("ok", StatusOK, FALSE, FALSE, EmptyMap)}
    \cup {Exchange("ok", st, TRUE, TRUE, EmptyMap) : st \in FailureStatuses}

\* How a GET was answered: a document, not found, or a fault.
AnswerOf(x) ==
    IF x.transport = "ok" /\ x.valid /\ x.status = StatusOK THEN "found"
    ELSE IF x.transport = "ok" /\ x.status = StatusNotFound THEN "notfound"
    ELSE "fault"

\* fmt.Sprintf("%v", v) of a decoded JSON value: its text, whatever its type.
Sprintv(v) == v.text

\* The result of readSecret: (map, nil) or (nil, err).
ReadOk(data) == [err |-> FALSE, data |-> data]
ReadErr == [err |-> TRUE, data |-> EmptyMap]
\* The zero values of existingData and err, before readSecret is called.
NotRead == [err |-> FALSE, data |-> EmptyMap]

\* A readSecret for which not found is an error like any other status.
readSecret_notFoundIsError(x) ==
    IF x.transport # "ok" THEN ReadErr
    ELSE IF x.status # StatusOK THEN ReadErr
    ELSE IF ~x.valid THEN ReadErr
    ELSE IF x.null THEN ReadOk(EmptyMap)
    ELSE ReadOk([k \in DOMAIN x.data |-> Sprintv(x.data[k])])

\* A readSecret that keeps only the values that are JSON strings.
readSecret_stringsOnly(x) ==
    IF x.transport # "ok" THEN ReadErr
    ELSE IF x.status = StatusNotFound THEN ReadOk(EmptyMap)
    ELSE IF x.status # StatusOK THEN ReadErr
    ELSE IF ~x.valid THEN ReadErr
    ELSE IF x.null THEN ReadOk(EmptyMap)
    ELSE ReadOk([k \in {j \in DOMAIN x.data : x.data[j].kind = "string"} |->
                    x.data[k].text])

\* A readSecret that takes every status other than 200 for not found.
readSecret_anyStatusAsEmpty(x) ==
    IF x.transport # "ok" THEN ReadErr
    ELSE IF x.status # StatusOK THEN ReadOk(EmptyMap)
    ELSE IF ~x.valid THEN ReadErr
    ELSE IF x.null THEN ReadOk(EmptyMap)
    ELSE ReadOk([k \in DOMAIN x.data |-> Sprintv(x.data[k])])

\* readSecret on the exchange of its GET.
readSecret(x) ==
    IF x.transport # "ok" THEN ReadErr
    ELSE IF x.status = StatusNotFound THEN ReadOk(EmptyMap)
    ELSE IF x.status # StatusOK THEN ReadErr
    ELSE IF ~x.valid THEN ReadErr
    ELSE IF x.null THEN ReadOk(EmptyMap)
    ELSE ReadOk([k \in DOMAIN x.data |-> Sprintv(x.data[k])])

\* json.Marshal of the payload {"data": data}: every value a JSON string.
MarshalPayload(data) == [k \in DOMAIN data |-> JString(data[k])]

\* What a POST can answer: stored ("ok" with 200 or 204), or a failure.
VaultPost ==
    {Exchange("ok", st, TRUE, TRUE, EmptyMap) : st \in {StatusOK, StatusNoContent}}
    \cup {Exchange("send", 0, FALSE, FALSE, EmptyMap)}
    \cup {Exchange("ok", st, TRUE, TRUE, EmptyMap) : st \in FailureStatuses}

\* Whether writeSecret returns an error on the exchange of its POST.
writeSecretFails(x) ==
    \/ x.transport # "ok"
    \/ (x.status # StatusOK /\ x.status # StatusNoContent)

\* A POST that sets the posted keys and keeps the other keys of the secret.
VaultAfterPost_fieldPatch(v, data, x) ==
    IF x.transport = "ok" /\ x.status \in {StatusOK, StatusNoContent}
       THEN Secret([k \in (DOMAIN v.data) \cup (DOMAIN data) |->
                       IF k \in DOMAIN data THEN JString(data[k]) ELSE v.data[k]])
       ELSE v

\* The secret after a POST of data answered by x: a full replacement when
\* Vault accepted it, unchanged otherwise.
VaultAfterPost(v, data, x) ==
    IF x.transport = "ok" /\ x.status \in {StatusOK, StatusNoContent}
       THEN Secret(MarshalPayload(data))
       ELSE v

(***************************************************************************)
(* The patch computations.                                                 *)
(***************************************************************************)
\* A merge in which a key already in existingData keeps its value.
mergeKeys_existingWins(existingData, newKeys) ==
    [k \in (DOMAIN existingData) \cup (DOMAIN newKeys) |->
        IF k \in DOMAIN existingData THEN existingData[k] ELSE newKeys[k]]

mergeKeys(existingData, newKeys) ==
    [k \in (DOMAIN existingData) \cup (DOMAIN newKeys) |->
        IF k \in DOMAIN newKeys THEN newKeys[k] ELSE existingData[k]]

\* A keysMatch that compares the keys only, not their values.
keysMatch_keysOnly(existingMap, planned) ==
    \A k \in DOMAIN planned : k \in DOMAIN existingMap

keysMatch(existingMap, planned) ==
    \A k \in DOMAIN planned :
        k \in DOMAIN existingMap /\ existingMap[k] = planned[k]

\* An update that removes a key that left the plan only while the secret
\* still holds the tracked value.
updatePatch_ifTracked(existingData, stateKeys, planKeys) ==
    mergeKeys(MapDeleteAll(existingData,
                           {k \in (DOMAIN stateKeys) \ (DOMAIN planKeys) :
                               k \in DOMAIN existingData
                               /\ existingData[k] = stateKeys[k]}),
              planKeys)

\* Update: the keys of the state that are not in the plan are deleted from
\* existingData, then the planned keys are merged.
updatePatch(existingData, stateKeys, planKeys) ==
    mergeKeys(MapDeleteAll(existingData, (DOMAIN stateKeys) \ (DOMAIN planKeys)),
              planKeys)

\* A delete that removes a tracked key only while the secret still holds
\* the tracked value.
deletePatch_ifTracked(existingData, stateKeys) ==
    MapDeleteAll(existingData,
                 {k \in DOMAIN stateKeys :
                     k \in DOMAIN existingData /\ existingData[k] = stateKeys[k]})

\* Delete: the keys of the state are deleted from existingData.
deletePatch(existingData, stateKeys) ==
    MapDeleteAll(existingData, DOMAIN stateKeys)

(***************************************************************************)
(* State.                                                                  *)
(*   vault      the secret at the location, as Vault holds it              *)
(*   state      the Terraform state of the resource                        *)
(*   pc         "ready" (no handler running), "store" (the running handler *)
(*              has read the secret and is about to POST) or "done" (the   *)
(*              handler has returned; its locals are still in place)       *)
(*   op, plan, importId   the handler that runs or has returned, its       *)
(*              planned keys and its import identifier                     *)
(*   prior      the Terraform state when that handler was entered          *)
(*   loc        the mount and path that handler addresses                  *)
(*   before     the secret as Vault held it when that handler's GET was    *)
(*              answered                                                   *)
(*   answer     how its GET was answered: "found" (200 and a document),    *)
(*              "notfound" (404), "fault" (anything else), "none" (no GET) *)
(*   existing   the result of its readSecret: existingData and err         *)
(*   payload    the document it computed for its POST                      *)
(*   gets, posts   the numbers of GETs and POSTs it issued                 *)
(*   writeErr   whether its writeSecret returned an error                  *)
(*   diag       the error it reported, "none" if none                      *)
(*   extWrites  the number of writes by other writers between that         *)
(*              handler's GET and its POST                                 *)
(*   clobbered  whether its POST replaced a value that another writer had  *)
(*              given, since the GET, to a key that is neither in the      *)
(*              prior state nor in the plan                                *)
(*   prev       under SpecSeq, the handler that ran before it (its name,   *)
(*              its plan and the secret before it), when that one reported *)
(*              no error; else NoPrev                                      *)
(* The model starts between two handlers, at any time in the life of the   *)
(* resource: other writers may have left any secret at the location, and   *)
(* the resource is either not in the Terraform state or tracked there      *)
(* with any keys.                                                          *)
(***************************************************************************)
VARIABLES vault, state, pc, op, plan, importId, prior, loc, before, answer, existing, gets, posts,
          payload, writeErr, diag, extWrites, clobbered, prev

vars == <<vault, state, pc, op, plan, importId, prior, loc, before, answer, existing, gets, posts,
          payload, writeErr, diag, extWrites, clobbered, prev>>

Location(mount, path) == [mount |-> mount, path |-> path]
\* The one location of the model at which Vault holds a secret.
TheLocation == Location(TheMount, ThePath)

\* What Vault holds at a location.
SecretAt(l) == IF l = TheLocation THEN vault ELSE NoSecret

\* Planned keys of a configuration: any map of strings.
Plans == MapsTo(Texts)

\* No handler ran before, or its effects are not known to be in place.
NoPrev == [op |-> "none", plan |-> EmptyMap, before |-> NoSecret]

Init ==
    /\ vault \in VaultStates
    /\ state \in {Untracked}
                \cup {Tracked(FormatID(TheMount, ThePath), TheMount, ThePath, k) :
                         k \in Plans}
    /\ pc = "ready"
    /\ op = "none"
    /\ plan = EmptyMap
    /\ importId = << >>
    /\ prior = Untracked
    /\ loc = Location(<< >>, << >>)
    /\ before = NoSecret
    /\ answer = "none"
    /\ existing = NotRead
    /\ gets = 0
    /\ posts = 0
    /\ payload = EmptyMap
    /\ writeErr = FALSE
    /\ diag = "none"
    /\ extWrites = 0
    /\ clobbered = FALSE
    /\ prev = NoPrev

\* Entry of a handler: the framework hands it the plan and the prior state.
Enter(name, p, id, l) ==
    /\ pc = "ready"
    /\ op' = name
    /\ plan' = p
    /\ importId' = id
    /\ prior' = state
    /\ loc' = l
    /\ posts' = 0
    /\ writeErr' = FALSE
    /\ extWrites' = 0
    /\ clobbered' = FALSE
    /\ UNCHANGED <<vault, prev>>

\* The handler's GET was answered by x and readSecret returned r.
Fetched(x, r) ==
    /\ before' = SecretAt(loc')
    /\ answer' = AnswerOf(x)
    /\ existing' = r
    /\ gets' = 1

\* The handler returns before any GET.
NotFetched ==
    /\ before' = NoSecret
    /\ answer' = "none"
    /\ existing' = NotRead
    /\ gets' = 0

\* The handler returns to the framework with diagnostics d and state s.
Return(d, s) ==
    /\ pc' = "done"
    /\ diag' = d
    /\ state' = s

\* The handler goes on to its POST of document data.
GoStore(data) ==
    /\ pc' = "store"
    /\ payload' = data
    /\ diag' = "none"
    /\ UNCHANGED state

\* What secret v holds at key k: a one-element set, empty when k is not there.
Held(v, k) == IF k \in DOMAIN v.data THEN {v.data[k]} ELSE {}

\* The POST of the running handler and Vault's answer x.
Post(x) ==
    /\ posts' = posts + 1
    /\ writeErr' = writeSecretFails(x)
    /\ vault' = (IF loc = TheLocation THEN VaultAfterPost(vault, payload, x) ELSE vault)
    /\ clobbered' = \E k \in Keys \ ((DOMAIN prior.keys) \cup (DOMAIN plan)) :
                        /\ Held(vault, k) # Held(before, k)
                        /\ Held(vault', k) # Held(vault, k)
    /\ UNCHANGED <<op, plan, importId, prior, loc, before, answer, existing, gets, payload,
                   extWrites, prev>>

(***************************************************************************)
(* Create: read, merge the planned keys unless they all match, write.      *)
(***************************************************************************)
CreateFetch(p) ==
    /\ ~state.tracked
    /\ Enter("create", p, << >>, TheLocation)
    /\ \E x \in VaultGet(SecretAt(TheLocation)) :
         LET r == readSecret(x) IN
         /\ Fetched(x, r)
         /\ IF r.err
               THEN /\ Return("Failed to Read Existing Secret", Untracked)
                    /\ payload' = EmptyMap
               ELSE IF ~keysMatch(r.data, p)
                       THEN GoStore(mergeKeys(r.data, p))
                       ELSE /\ Return("none", Tracked(FormatID(TheMount, ThePath),
                                                      TheMount, ThePath, p))
                            /\ payload' = EmptyMap

CreateStore ==
    /\ pc = "store"
    /\ op = "create"
    /\ \E x \in VaultPost :
         /\ Post(x)
         /\ IF writeSecretFails(x)
               THEN Return("Failed to Write Secret", Untracked)
               ELSE Return("none", Tracked(FormatID(loc.mount, loc.path),
                                           loc.mount, loc.path, plan))

(***************************************************************************)
(* Read (refresh): keep the tracked keys that are still in the secret,     *)
(* with their current values; drop the resource when none is left.         *)
(***************************************************************************)
\* A refresh that keeps the tracked values instead of reading the current ones.
currentKeys_stateValues(stateKeys, existingData) ==
    [k \in (DOMAIN stateKeys) \cap (DOMAIN existingData) |-> stateKeys[k]]

\* A refresh that keeps a tracked key only while the secret still holds the
\* tracked value.
currentKeys_ifTracked(stateKeys, existingData) ==
    [k \in {j \in (DOMAIN stateKeys) \cap (DOMAIN existingData) :
                existingData[j] = stateKeys[j]} |-> existingData[k]]

\* currentKeys of Read: the loop over stateKeys.
currentKeys(stateKeys, existingData) ==
    [k \in (DOMAIN stateKeys) \cap (DOMAIN existingData) |-> existingData[k]]

\* A Read that writes the document it fetched back to Vault.
Read_writesBack ==
    /\ state.tracked
    /\ pc = "ready"
    /\ op' = "read"
    /\ plan' = EmptyMap
    /\ importId' = << >>
    /\ prior' = state
    /\ loc' = Location(state.mount, state.path)
    /\ extWrites' = 0
    /\ clobbered' = FALSE
    /\ UNCHANGED prev
    /\ \E x \in VaultGet(SecretAt(Location(state.mount, state.path))) :
         LET r == readSecret(x)
             cur == currentKeys(state.keys, r.data)
         IN
         /\ before' = vault
         /\ answer' = AnswerOf(x)
         /\ existing' = r
         /\ gets' = 1
         /\ IF r.err
               THEN /\ Return("none", Untracked)
                    /\ payload' = EmptyMap
                    /\ posts' = 0
                    /\ writeErr' = FALSE
                    /\ UNCHANGED vault
               ELSE /\ payload' = r.data
                    /\ posts' = 1
                    /\ writeErr' = FALSE
                    /\ vault' = Secret(MarshalPayload(r.data))
                    /\ IF Cardinality(DOMAIN cur) = 0
                          THEN Return("none", Untracked)
                          ELSE Return("none", [state EXCEPT !.keys = cur])

Read ==
    /\ state.tracked
    /\ Enter("read", EmptyMap, << >>, Location(state.mount, state.path))
    /\ payload' = EmptyMap
    /\ \E x \in VaultGet(SecretAt(Location(state.mount, state.path))) :
         LET r == readSecret(x)
             cur == currentKeys(state.keys, r.data)
         IN
         /\ Fetched(x, r)
         /\ IF r.err
               THEN Return("none", Untracked)
               ELSE IF Cardinality(DOMAIN cur) = 0
                       THEN Return("none", Untracked)
                       ELSE Return("none", [state EXCEPT !.keys = cur])

(***************************************************************************)
(* Update: read, remove the keys that left the plan, merge the planned     *)
(* keys, write.                                                            *)
(***************************************************************************)
\* An Update that skips its POST when the document it computed is the one
\* it fetched.
UpdateFetch_skipIfUnchanged(p) ==
    /\ state.tracked
    /\ Enter("update", p, << >>, TheLocation)
    /\ \E x \in VaultGet(SecretAt(TheLocation)) :
         LET r == readSecret(x) IN
         /\ Fetched(x, r)
         /\ IF r.err
               THEN /\ Return("Failed to Read Existing Secret", state)
                    /\ payload' = EmptyMap
               ELSE IF updatePatch(r.data, state.keys, p) = r.data
                       THEN /\ Return("none", Tracked(FormatID(TheMount, ThePath),
                                                      TheMount, ThePath, p))
                            /\ payload' = EmptyMap
                       ELSE GoStore(updatePatch(r.data, state.keys, p))

UpdateFetch(p) ==
    /\ state.tracked
    /\ Enter("update", p, << >>, TheLocation)
    /\ \E x \in VaultGet(SecretAt(TheLocation)) :
         LET r == readSecret(x) IN
         /\ Fetched(x, r)
         /\ IF r.err
               THEN /\ Return("Failed to Read Existing Secret", state)
                    /\ payload' = EmptyMap
               ELSE GoStore(updatePatch(r.data, state.keys, p))

\* An Update that records the plan as the state also when its write failed.
UpdateStore_planRecorded ==
    /\ pc = "store"
    /\ op = "update"
    /\ \E x \in VaultPost :
         /\ Post(x)
         /\ IF writeSecretFails(x)
               THEN Return("Failed to Write Secret",
                           Tracked(FormatID(loc.mount, loc.path), loc.mount, loc.path, plan))
               ELSE Return("none", Tracked(FormatID(loc.mount, loc.path),
                                           loc.mount, loc.path, plan))

UpdateStore ==
    /\ pc = "store"
    /\ op = "update"
    /\ \E x \in VaultPost :
         /\ Post(x)
         /\ IF writeSecretFails(x)
               THEN Return("Failed to Write Secret", state)
               ELSE Return("none", Tracked(FormatID(loc.mount, loc.path),
                                           loc.mount, loc.path, plan))

(***************************************************************************)
(* Delete: read, remove the tracked keys, write.  The framework drops the  *)
(* resource from the state when Delete reports no error.                   *)
(***************************************************************************)
\* A Delete that reports a failed GET as an error and keeps the resource.
DeleteFetch_fetchErrorReported ==
    /\ state.tracked
    /\ Enter("delete", EmptyMap, << >>, Location(state.mount, state.path))
    /\ \E x \in VaultGet(SecretAt(Location(state.mount, state.path))) :
         LET r == readSecret(x) IN
         /\ Fetched(x, r)
         /\ IF r.err
               THEN /\ Return("Failed to Read Existing Secret", state)
                    /\ payload' = EmptyMap
               ELSE GoStore(deletePatch(r.data, state.keys))

DeleteFetch ==
    /\ state.tracked
    /\ Enter("delete", EmptyMap, << >>, Location(state.mount, state.path))
    /\ \E x \in VaultGet(SecretAt(Location(state.mount, state.path))) :
         LET r == readSecret(x) IN
         /\ Fetched(x, r)
         /\ IF r.err
               THEN /\ Return("none", Untracked)
                    /\ payload' = EmptyMap
               ELSE GoStore(deletePatch(r.data, state.keys))

DeleteStore ==
    /\ pc = "store"
    /\ op = "delete"
    /\ \E x \in VaultPost :
         /\ Post(x)
         /\ IF writeSecretFails(x)
               THEN Return("Failed to Write Secret After Delete", state)
               ELSE Return("none", Untracked)

(***************************************************************************)
(* ImportState: split the identifier at its first "/", read the secret     *)
(* and adopt all of it.                                                    *)
(***************************************************************************)
\* strings.LastIndex(s, "/"): the 0-based index of the last "/", -1 if none.
IndexSlash_last(s) ==
    IF \E i \in 1..Len(s) : s[i] = "/"
       THEN (CHOOSE i \in 1..Len(s) :
                /\ s[i] = "/"
                /\ \A j \in (i + 1)..Len(s) : s[j] # "/") - 1
       ELSE -1

\* strings.Index(s, "/"): the 0-based index of the first "/", -1 if none.
IndexSlash(s) ==
    IF \E i \in 1..Len(s) : s[i] = "/"
       THEN (CHOOSE i \in 1..Len(s) :
                /\ s[i] = "/"
                /\ \A j \in 1..(i - 1) : s[j] # "/") - 1
       ELSE -1

\* id[:idx] and id[idx+1:]
ImportMount(id) == SubSeq(id, 1, IndexSlash(id))
ImportPath(id) == SubSeq(id, IndexSlash(id) + 2, Len(id))

\* Identifiers given to terraform import: the location of the secret
\* ("m/p/q"), and identifiers with no "/" ("mpq"), with an empty mount
\* ("/p/q") and with an empty path ("m/").
ImportIds == {FormatID(TheMount, ThePath), <<"m", "p", "q">>,
              Slash \o ThePath, TheMount \o Slash}

ImportState(id) ==
    /\ ~state.tracked
    /\ payload' = EmptyMap
    /\ IF IndexSlash(id) < 0
          THEN /\ Enter("import", EmptyMap, id, Location(<< >>, << >>))
               /\ NotFetched
               /\ Return("Invalid Import ID", state)
          ELSE IF ImportMount(id) = << >> \/ ImportPath(id) = << >>
                  THEN /\ Enter("import", EmptyMap, id,
                                Location(ImportMount(id), ImportPath(id)))
                       /\ NotFetched
                       /\ Return("Invalid Import ID", state)
                  ELSE /\ Enter("import", EmptyMap, id,
                                Location(ImportMount(id), ImportPath(id)))
                       /\ \E x \in VaultGet(SecretAt(Location(ImportMount(id),
                                                              ImportPath(id)))) :
                            LET r == readSecret(x) IN
                            /\ Fetched(x, r)
                            /\ IF r.err
                                  THEN Return("Failed to Read Secret During Import", state)
                                  ELSE Return("none", Tracked(id, ImportMount(id),
                                                              ImportPath(id), r.data))

(***************************************************************************)
(* The framework has recorded the handler's result; the handler's locals   *)
(* are gone.                                                               *)
(***************************************************************************)
\* The locals of the handler that returned are dropped.
Leave ==
    /\ pc = "done"
    /\ pc' = "ready"
    /\ op' = "none"
    /\ plan' = EmptyMap
    /\ importId' = << >>
    /\ prior' = Untracked
    /\ loc' = Location(<< >>, << >>)
    /\ before' = NoSecret
    /\ answer' = "none"
    /\ existing' = NotRead
    /\ gets' = 0
    /\ posts' = 0
    /\ payload' = EmptyMap
    /\ writeErr' = FALSE
    /\ diag' = "none"
    /\ extWrites' = 0
    /\ clobbered' = FALSE
    /\ UNCHANGED <<vault, state>>

Exit ==
    /\ Leave
    /\ prev' = NoPrev

\* The same, remembering the handler for the one that runs next.
ExitSeq ==
    /\ Leave
    /\ prev' = (IF diag = "none" /\ extWrites = 0
                   THEN [op |-> op, plan |-> plan, before |-> before]
                   ELSE NoPrev)

(***************************************************************************)
(* terraform state rm: the resource is dropped from the Terraform state,   *)
(* the secret is left as it is.  A Create can follow.                      *)
(***************************************************************************)
Forget ==
    /\ pc = "ready"
    /\ state.tracked
    /\ state' = Untracked
    /\ UNCHANGED <<vault, pc, op, plan, importId, prior, loc, before, answer,
                   existing, gets, posts, payload, writeErr, diag, extWrites, clobbered, prev>>

(***************************************************************************)
(* Other writers of the same secret, between the GET and the POST of the   *)
(* running handler.  What they do between two handlers is in Init.         *)
(***************************************************************************)
External(v) ==
    /\ pc = "store"
    /\ extWrites < MaxExternalWrites
    /\ v # vault
    /\ vault' = v
    /\ extWrites' = extWrites + 1
    /\ UNCHANGED <<state, pc, op, plan, importId, prior, loc, before, answer,
                   existing, gets, posts, payload, writeErr, diag, clobbered, prev>>

\* Another writer sets one key to a string.
ExternalPut(k, s) == External(Secret(MapPut(vault.data, k, JString(s))))

\* Another writer removes one key.
ExternalRemove(k) ==
    /\ k \in DOMAIN vault.data
    /\ External(Secret(MapDelete(vault.data, k)))

\* Another writer deletes the whole secret.
ExternalDestroy == External(NoSecret)

Handlers ==
    \/ \E p \in Plans : CreateFetch(p)
    \/ CreateStore
    \/ Read
    \/ \E p \in Plans : UpdateFetch(p)
    \/ UpdateStore
    \/ DeleteFetch
    \/ DeleteStore
    \/ \E id \in ImportIds : ImportState(id)
    \/ Forget

OtherWriters ==
    \/ \E k \in Keys, s \in Texts : ExternalPut(k, s)
    \/ \E k \in Keys : ExternalRemove(k)
    \/ ExternalDestroy

Next == Handlers \/ Exit \/ OtherWriters

Spec == Init /\ [][Next]_vars

\* Runs of handlers one after the other with no other writer of the secret,
\* in which a handler knows which handler ran before it.
NextSeq == Handlers \/ ExitSeq

SpecSeq == Init /\ [][NextSeq]_vars

(***************************************************************************)
(* Properties.                                                             *)
(***************************************************************************)
\* Handler o has returned.
Finished(o) == pc = "done" /\ op = o
\* Handler o has returned and reported no error.
Succeeded(o) == Finished(o) /\ diag = "none"
\* The GET of the handler was answered with a document or with not found.
FetchOk == answer \in {"found", "notfound"}

\* C1: when Create, Update or Delete has completed and no other writer
\* acted between its GET and its POST, every key of the secret as it was
\* before that is neither in the prior state nor in the plan is still in
\* the secret, with exactly the value it had.
C1_UnmanagedKeysUntouched ==
    (pc = "done" /\ op \in {"create", "update", "delete"} /\ extWrites = 0)
    => \A k \in (DOMAIN before.data) \ ((DOMAIN prior.keys) \cup (DOMAIN plan)) :
          /\ vault.exists
          /\ k \in DOMAIN vault.data
          /\ vault.data[k] = before.data[k]

\* C2: when Create or Update has completed without error (a Create that
\* skipped its write included), the secret holds every planned key with
\* the planned value.
C2_PlanWins ==
    (Succeeded("create") \/ Succeeded("update"))
    => \A k \in DOMAIN plan :
          /\ vault.exists
          /\ k \in DOMAIN vault.data
          /\ vault.data[k] = JString(plan[k])

\* C3: after a successful Update, no key that is in the prior state and not
\* in the plan is in the secret, whatever value the secret held at it.
C3_RemovedKeysAbsent ==
    Succeeded("update")
    => \A k \in (DOMAIN prior.keys) \ (DOMAIN plan) : k \notin DOMAIN vault.data

\* A successful Update removed a key whose value in the secret was not the
\* tracked one.
C3_Witness ==
    /\ Succeeded("update")
    /\ \E k \in (DOMAIN prior.keys) \ (DOMAIN plan) :
          /\ k \in DOMAIN before.data
          /\ Sprintv(before.data[k]) # prior.keys[k]
          /\ k \notin DOMAIN vault.data

\* C4: after a successful Delete that fetched document D (existingData as
\* readSecret returned it), the secret is exactly D without the tracked
\* keys: no tracked key is left, every other key of D is there with its
\* value in D, and there is no further key.
C4_DeleteRemovesTracked ==
    (Succeeded("delete") /\ FetchOk)
    => /\ vault.exists
       /\ DOMAIN vault.data = (DOMAIN existing.data) \ (DOMAIN prior.keys)
       /\ \A k \in DOMAIN vault.data : vault.data[k] = JString(existing.data[k])

\* A successful Delete removed a tracked key whose value in the secret was
\* not the tracked one, and kept another key.
C4_Witness ==
    /\ Succeeded("delete")
    /\ FetchOk
    /\ \E k \in DOMAIN prior.keys :
          /\ k \in DOMAIN existing.data
          /\ existing.data[k] # prior.keys[k]
          /\ k \notin DOMAIN vault.data
    /\ \E k \in DOMAIN vault.data : k \notin DOMAIN prior.keys

\* C5: a Create whose GET was answered issues a POST exactly when some
\* planned key is missing from the fetched document or has another value
\* there; when it issues none, the secret is as it was, no error is
\* reported and the plan is recorded as the state.
C5_CreateWritesIffChanged ==
    (Finished("create") /\ FetchOk)
    => /\ (posts = 1) <=> (\E k \in DOMAIN plan :
                              \/ k \notin DOMAIN existing.data
                              \/ existing.data[k] # plan[k])
       /\ posts = 0 => /\ vault = before
                       /\ diag = "none"
                       /\ state = Tracked(FormatID(TheMount, ThePath),
                                          TheMount, ThePath, plan)

\* A Create found every key of a plan that is not empty in the secret with
\* the planned value, and skipped the write.
C5_Witness ==
    /\ Finished("create")
    /\ FetchOk
    /\ plan # EmptyMap
    /\ posts = 0
    /\ state.tracked
    /\ state.keys = plan

\* C6: a Create of plan P that runs after a successful Create of the same
\* P, with no other writer in between, issues no POST and leaves the secret
\* as the first Create left it; when its GET is answered it finds every
\* planned key in place and reports no error.
C6_CreateIdempotent ==
    (Finished("create") /\ prev.op = "create" /\ prev.plan = plan)
    => /\ posts = 0
       /\ vault = before
       /\ FetchOk => /\ diag = "none"
                     /\ \A k \in DOMAIN plan : /\ k \in DOMAIN existing.data
                                               /\ existing.data[k] = plan[k]

\* A second Create of a plan ran after a first one that had to write a
\* planned key the secret did not hold.
C6_Witness ==
    /\ Finished("create")
    /\ prev.op = "create"
    /\ prev.plan = plan
    /\ FetchOk
    /\ \E k \in DOMAIN plan : k \notin DOMAIN prev.before.data
    /\ posts = 0

\* C7: Create, Update and Delete do the same on a GET answered not found as
\* on a GET answered with an empty document: whenever the secret held no
\* key, existingData is the empty map, the POST is decided by the plan
\* alone (Create of an empty plan issues none; otherwise the document
\* posted is the plan, for Delete the empty document), and the error
\* reported and the state set depend on the outcome of that POST only.
C7_AbsentAsEmpty ==
    (pc \in {"store", "done"} /\ op \in {"create", "update", "delete"}
     /\ FetchOk /\ before.data = EmptyMap)
    => /\ existing = ReadOk(EmptyMap)
       /\ IF op = "create" /\ plan = EmptyMap
             THEN pc = "done" /\ posts = 0 /\ diag = "none"
             ELSE /\ payload = (IF op = "delete" THEN EmptyMap ELSE plan)
                  /\ pc = "done" => posts = 1
       /\ (pc = "done" /\ diag = "none")
          => /\ posts = 1 => vault = Secret(MarshalPayload(payload))
             /\ state = (IF op = "delete"
                            THEN Untracked
                            ELSE Tracked(FormatID(TheMount, ThePath),
                                         TheMount, ThePath, plan))
       /\ (pc = "done" /\ diag # "none")
          => state = (IF op = "create" THEN Untracked ELSE prior)

\* A Delete whose GET was answered not found has posted the empty document.
C7_Witness ==
    /\ Succeeded("delete")
    /\ answer = "notfound"
    /\ before = NoSecret
    /\ posts = 1
    /\ vault = Secret(EmptyMap)

\* C8: after a Read whose GET was answered and that found a tracked key in
\* the secret, the state holds exactly the tracked keys that are in the
\* fetched document, each with its value there; id, mount and path are as
\* before.
C8_RefreshRestricts ==
    (Finished("read") /\ FetchOk
     /\ (DOMAIN prior.keys) \cap (DOMAIN before.data) # {})
    => /\ state.tracked
       /\ DOMAIN state.keys = (DOMAIN prior.keys) \cap (DOMAIN before.data)
       /\ \A k \in DOMAIN state.keys : /\ state.keys[k] = existing.data[k]
                                       /\ state.keys[k] = Sprintv(before.data[k])
       /\ state.id = prior.id
       /\ state.mount = prior.mount
       /\ state.path = prior.path

\* A Read took the new value of a tracked key and dropped a tracked key
\* that had left the secret.
C8_Witness ==
    /\ Finished("read")
    /\ FetchOk
    /\ \E k \in DOMAIN state.keys : state.keys[k] # prior.keys[k]
    /\ \E k \in DOMAIN prior.keys : k \notin DOMAIN state.keys

\* C9: a Read whose GET was answered drops the resource from the state
\* exactly when no tracked key is in the fetched document.
C9_RefreshDropsIffNoneLeft ==
    (Finished("read") /\ FetchOk)
    => (~state.tracked <=> (DOMAIN prior.keys) \cap (DOMAIN before.data) = {})

\* A Read dropped a resource with tracked keys from a secret with other keys.
C9_Witness ==
    /\ Finished("read")
    /\ FetchOk
    /\ prior.keys # EmptyMap
    /\ before.data # EmptyMap
    /\ ~state.tracked

\* C10: after a successful ImportState the state holds every key of the
\* secret at the location, each with its value as fetched, and no other
\* key; when there is no secret there the state holds no key.
C10_ImportAdoptsAll ==
    Succeeded("import")
    => /\ state.tracked
       /\ loc = TheLocation
       /\ DOMAIN state.keys = DOMAIN vault.data
       /\ \A k \in DOMAIN state.keys : /\ state.keys[k] = existing.data[k]
                                       /\ state.keys[k] = Sprintv(vault.data[k])
       /\ ~vault.exists => state.keys = EmptyMap

\* An ImportState adopted a secret that holds a key for every name, one of
\* them not a string.
C10_Witness ==
    /\ Succeeded("import")
    /\ DOMAIN state.keys = Keys
    /\ \E k \in Keys : vault.data[k].kind = "number"

\* C11: a Delete whose GET failed has returned without reporting an error
\* and without a POST, the secret is as it was, and the resource is no
\* longer in the state.
C11_DeleteFetchFailureSatisfied ==
    (Finished("delete") /\ answer = "fault")
    => /\ diag = "none"
       /\ posts = 0
       /\ vault = before
       /\ ~state.tracked

\* A Delete whose GET failed left a tracked key in the secret and dropped
\* the resource.
C11_Witness ==
    /\ Finished("delete")
    /\ answer = "fault"
    /\ existing.err
    /\ \E k \in DOMAIN prior.keys : k \in DOMAIN vault.data
    /\ ~state.tracked

\* C12: in Create, Update, Read and ImportState a failed GET is reported as
\* an error, no POST is issued, the secret is as it was and the state is the
\* one the handler was entered with.
C12_FetchFailureSurfaced ==
    (pc = "done" /\ op \in {"create", "update", "read", "import"}
     /\ answer = "fault")
    => /\ diag # "none"
       /\ posts = 0
       /\ vault = before
       /\ state = prior

\* C13: when another writer changed the secret between the GET and the POST
\* of a Create, Update or Delete that reports no error, the secret is
\* exactly the patch computed from the document the GET fetched: nothing the
\* other writer did is in it, unless the patch holds it already.
C13_NoCompareAndSwap ==
    (pc = "done" /\ op \in {"create", "update", "delete"}
     /\ posts = 1 /\ extWrites > 0 /\ diag = "none")
    => vault = Secret(MarshalPayload(
                  CASE op = "create" -> mergeKeys(existing.data, plan)
                    [] op = "update" -> updatePatch(existing.data, prior.keys, plan)
                    [] op = "delete" -> deletePatch(existing.data, prior.keys)))

\* A handler reported no error after its POST replaced what another writer
\* had done, since the GET, to a key that is neither tracked nor planned.
C13_Witness ==
    /\ pc = "done"
    /\ op \in {"create", "update", "delete"}
    /\ posts = 1
    /\ extWrites > 0
    /\ diag = "none"
    /\ clobbered

\* C14: an Update whose GET was answered has issued exactly one POST,
\* also when the document it computed is the document it fetched.
C14_UpdateAlwaysWrites ==
    (Finished("update") /\ FetchOk) => posts = 1

\* An Update posted a document equal to the one it fetched, to a secret that
\* held exactly that document.
C14_Witness ==
    /\ Finished("update")
    /\ FetchOk
    /\ posts = 1
    /\ payload = existing.data
    /\ before = Secret(MarshalPayload(payload))

\* C15: when writeSecret returned an error, the handler reports an error
\* and the state is not advanced: after Create the resource is not in the
\* state, after Update and after Delete the state is the one the handler
\* was entered with.
C15_FailedStoreKeepsState ==
    (pc = "done" /\ op \in {"create", "update", "delete"} /\ writeErr)
    => /\ diag # "none"
       /\ op = "create" => ~state.tracked
       /\ op \in {"update", "delete"} => (state.tracked /\ state = prior)

\* The write of an Update whose plan differs from the tracked keys failed,
\* and the tracked keys are still the state.
C15_Witness ==
    /\ Finished("update")
    /\ writeErr
    /\ posts = 1
    /\ plan # prior.keys
    /\ state.keys = prior.keys

\* C16: a Create, Update or Delete issues at most one GET and at most one
\* POST; when it is about to POST or has posted, its one GET, of the same
\* location, was answered with a document or with not found, and the
\* document posted is the patch computed from the document fetched.
C16_StoreAfterFetch ==
    (pc \in {"store", "done"} /\ op \in {"create", "update", "delete"})
    => /\ gets <= 1
       /\ posts <= 1
       /\ pc = "store" => posts = 0
       /\ (pc = "store" \/ posts = 1)
          => /\ gets = 1
             /\ FetchOk
             /\ ~existing.err
             /\ loc = TheLocation
             /\ \A k \in DOMAIN before.data :
                   /\ k \in DOMAIN existing.data
                   /\ existing.data[k] = Sprintv(before.data[k])
             /\ payload =
                   (CASE op = "create" -> mergeKeys(existing.data, plan)
                      [] op = "update" -> updatePatch(existing.data, prior.keys, plan)
                      [] op = "delete" -> deletePatch(existing.data, prior.keys))

\* An Update has posted, after its one GET, a document that is not the one
\* it fetched.
C16_Witness ==
    /\ Finished("update")
    /\ gets = 1
    /\ posts = 1
    /\ answer = "found"
    /\ payload # existing.data
    /\ vault = Secret(MarshalPayload(payload))

\* C17: Read and ImportState run from entry to return without a POST and
\* leave the secret exactly as it is, whether they set the state, drop the
\* resource or report an error.
C17_RefreshImportReadOnly ==
    [][(pc = "ready" /\ op' \in {"read", "import"})
       => (pc' = "done" /\ posts' = 0 /\ vault' = vault)]_vars

\* A Read has dropped the resource from the state and the secret still
\* holds a value that is not a string.
C17_Witness ==
    /\ Finished("read")
    /\ gets = 1
    /\ ~state.tracked
    /\ \E k \in DOMAIN vault.data : vault.data[k].kind = "number"

\* C18: after a successful Create or Update of a plan that is not empty the
\* state holds the plan as its keys and mount/path as its id; and a Read
\* that follows it, with no other writer in between, keeps the resource in
\* the state with the plan as its keys.
C18_NoDriftAfterApply ==
    /\ ((Succeeded("create") \/ Succeeded("update")) /\ plan # EmptyMap)
       => state = Tracked(FormatID(TheMount, ThePath), TheMount, ThePath, plan)
    /\ (Finished("read") /\ prev.op \in {"create", "update"}
        /\ prev.plan # EmptyMap)
       => /\ state.tracked
          /\ state.keys = prev.plan
          /\ state.id = FormatID(TheMount, ThePath)

\* C19: when a Delete that fetched and stored follows a successful Create
\* of plan P on a secret that held document D, with no other writer in
\* between, the secret holds D without the keys of P; it holds D itself
\* when no key of P was in D.
C19_CreateThenDelete ==
    (Succeeded("delete") /\ FetchOk /\ prev.op = "create")
    => /\ vault.data = MapDeleteAll(prev.before.data, DOMAIN prev.plan)
       /\ (DOMAIN prev.plan) \cap (DOMAIN prev.before.data) = {}
          => vault.data = prev.before.data

\* C20: ImportState takes the part of its identifier before the first "/"
\* as the mount and all that follows it as the path.  An identifier with no
\* "/", or whose first "/" is its first or its last character, is rejected
\* with an error, with no GET, and the state is not set; any other
\* identifier is fetched at that mount and path, which a successful import
\* records in the state together with the identifier as given.
C20_ImportSplitsAtFirstSlash ==
    Finished("import")
    => IF \E i \in 2..(Len(importId) - 1) :
             /\ importId[i] = "/"
             /\ \A j \in 1..(i - 1) : importId[j] # "/"
          THEN /\ gets = 1
               /\ \A j \in 1..Len(loc.mount) : loc.mount[j] # "/"
               /\ loc.mount \o <<"/">> \o loc.path = importId
               /\ diag \in {"none", "Failed to Read Secret During Import"}
               /\ diag = "none" => /\ state.tracked
                                   /\ state.id = importId
                                   /\ state.mount = loc.mount
                                   /\ state.path = loc.path
               /\ diag # "none" => ~state.tracked
          ELSE /\ diag = "Invalid Import ID"
               /\ gets = 0
               /\ posts = 0
               /\ ~state.tracked

\* An ImportState has adopted the secret at a path that holds a "/".
C20_Witness ==
    /\ Succeeded("import")
    /\ \E j \in 1..Len(loc.path) : loc.path[j] = "/"
    /\ state.tracked
    /\ state.keys # EmptyMap

====
